---- MODULE Spec2Model ----
(***************************************************************************)
(* Model of usvg/src/filter/funcs.rs: the conversion of CSS filter         *)
(* functions (grayscale, sepia, saturate, hue-rotate, invert, opacity,     *)
(* brightness, contrast, blur, drop-shadow) into filter primitives.        *)
(*                                                                         *)
(* Numbers.  An f64 amount, coefficient or angle is a fixed-point integer  *)
(* counting units of 1/ONE, so 1.0 is ONE and 0.2126 is 2126.  Amounts are *)
(* multiples of 0.5 and every coefficient of the source is an even number  *)
(* of units, so every product the source computes is exact in this         *)
(* arithmetic.  Rounding of f64, NaN, infinities and signed zeros are not  *)
(* modelled.  Resolved lengths (user-space numbers) are whole integers.    *)
(***************************************************************************)
EXTENDS Integers, Sequences, FiniteSets, TLC

\* 1.0 in fixed-point units.
ONE == 10000

\* ------------------------------------------------------------------ bounds
\* amounts range over -MaxAmount/2 .. MaxAmount/2 in steps of 0.5
MaxAmount == 6
\* angle numbers range over -MaxAngle .. MaxAngle quarter turns
MaxAngle == 6
\* the document holds the length values 1 .. MaxLength
MaxLength == 2
\* a length resolves to a user-space number in -1 .. MaxResolved
MaxResolved == 1

VARIABLES
    fn,                 \* the filter function converted last ("none" at start)
    args,               \* the arguments of that call
    result,             \* the FilterKind it returned, or Panicked
    lengths,            \* converter::State + node: resolution of each (Length, AId)
    ambient,            \* node.find_attribute(AId::Color): NoColor or a Color
    debug_assertions    \* whether the build compiles debug assertions in

vars == <<fn, args, result, lengths, ambient, debug_assertions>>

\* ------------------------------------------------------------- arithmetic
\* a * b of two fixed-point numbers
Mul(a, b) == (a * b) \div ONE

\* f64::min and f64::max on finite numbers
Min(a, b) == IF a <= b THEN a ELSE b
Max(a, b) == IF a >= b THEN a ELSE b

Amounts == { k * (ONE \div 2) : k \in -MaxAmount .. MaxAmount }

\* ------------------------------------------------------------ data model
SourceGraphic == "SourceGraphic"

Matrix(values) == [tag |-> "Matrix", values |-> values]
Saturate(value) == [tag |-> "Saturate", value |-> value]
HueRotate(value) == [tag |-> "HueRotate", value |-> value]

Identity == [tag |-> "Identity"]
Table(values) == [tag |-> "Table", values |-> values]
Linear(slope, intercept) == [tag |-> "Linear", slope |-> slope, intercept |-> intercept]

FeColorMatrix(kind) ==
    [tag |-> "FeColorMatrix", input |-> SourceGraphic, kind |-> kind]

FeComponentTransfer(func_r, func_g, func_b, func_a) ==
    [tag |-> "FeComponentTransfer", input |-> SourceGraphic,
     func_r |-> func_r, func_g |-> func_g, func_b |-> func_b, func_a |-> func_a]

\* ---------------------------------------------------- amount conversions
\* grayscale without the upper clamp
convert_grayscale_unclamped(amount0) ==
    LET amount == amount0 IN
    FeColorMatrix(Matrix(<<
        2126 + Mul(7874, ONE - amount),
        7152 - Mul(7152, ONE - amount),
        722 - Mul(722, ONE - amount),
        0,
        0,

        2126 - Mul(2126, ONE - amount),
        7152 + Mul(2848, ONE - amount),
        722 - Mul(722, ONE - amount),
        0,
        0,

        2126 - Mul(2126, ONE - amount),
        7152 - Mul(7152, ONE - amount),
        722 + Mul(9278, ONE - amount),
        0,
        0,

        0, 0, 0, ONE, 0 >>))

\* grayscale with a lower clamp added
convert_grayscale_clamped_below(amount0) ==
    LET amount == Max(Min(amount0, ONE), 0) IN
    FeColorMatrix(Matrix(<<
        2126 + Mul(7874, ONE - amount),
        7152 - Mul(7152, ONE - amount),
        722 - Mul(722, ONE - amount),
        0,
        0,

        2126 - Mul(2126, ONE - amount),
        7152 + Mul(2848, ONE - amount),
        722 - Mul(722, ONE - amount),
        0,
        0,

        2126 - Mul(2126, ONE - amount),
        7152 - Mul(7152, ONE - amount),
        722 + Mul(9278, ONE - amount),
        0,
        0,

        0, 0, 0, ONE, 0 >>))

convert_grayscale(amount0) ==
    LET amount == Min(amount0, ONE) IN
    FeColorMatrix(Matrix(<<
        2126 + Mul(7874, ONE - amount),
        7152 - Mul(7152, ONE - amount),
        722 - Mul(722, ONE - amount),
        0,
        0,

        2126 - Mul(2126, ONE - amount),
        7152 + Mul(2848, ONE - amount),
        722 - Mul(722, ONE - amount),
        0,
        0,

        2126 - Mul(2126, ONE - amount),
        7152 - Mul(7152, ONE - amount),
        722 + Mul(9278, ONE - amount),
        0,
        0,

        0, 0, 0, ONE, 0 >>))

convert_sepia(amount0) ==
    LET amount == Min(amount0, ONE) IN
    FeColorMatrix(Matrix(<<
        3930 + Mul(6070, ONE - amount),
        7690 - Mul(7690, ONE - amount),
        1890 - Mul(1890, ONE - amount),
        0,
        0,

        3490 - Mul(3490, ONE - amount),
        6860 + Mul(3140, ONE - amount),
        1680 - Mul(1680, ONE - amount),
        0,
        0,

        2720 - Mul(2720, ONE - amount),
        5340 - Mul(5340, ONE - amount),
        1310 + Mul(8690, ONE - amount),
        0,
        0,

        0, 0, 0, ONE, 0 >>))

\* PositiveNumber::new: the number, checked to be >= 0.  The check is an
\* assertion: a build with assertions refuses a negative number (the call
\* panics), a build without them stores it as it is.
PositiveNumber_new(n) == [panic |-> debug_assertions /\ n < 0, value |-> n]

\* the outcome of a call that did not return
Panicked == [tag |-> "Panicked"]

\* saturate with an upper clamp added
convert_saturate_clamped_above(amount0) ==
    LET amount == PositiveNumber_new(Min(Max(amount0, 0), ONE)) IN
    IF amount.panic THEN Panicked
    ELSE FeColorMatrix(Saturate(amount.value))

convert_saturate(amount0) ==
    LET amount == PositiveNumber_new(Max(amount0, 0)) IN
    IF amount.panic THEN Panicked
    ELSE FeColorMatrix(Saturate(amount.value))

\* svgtypes::Angle: a number and a unit
AngleUnits == {"deg", "grad", "rad", "turn"}

\* a quarter turn in each unit: 90deg, 100grad, 1.5708rad, 0.25turn
QuarterTurn(unit) ==
    CASE unit = "deg" -> 90 * ONE
      [] unit = "grad" -> 100 * ONE
      [] unit = "rad" -> 15708
      [] unit = "turn" -> ONE \div 4

Angles ==
    { [number |-> k * QuarterTurn(u), unit |-> u] :
        k \in -MaxAngle .. MaxAngle, u \in AngleUnits }

\* Angle::to_degrees (180/pi is taken as 57.30)
Angle_to_degrees(angle) ==
    CASE angle.unit = "deg" -> angle.number
      [] angle.unit = "grad" -> (angle.number * 180) \div 200
      [] angle.unit = "rad" -> (angle.number * 5730) \div 100
      [] angle.unit = "turn" -> angle.number * 360

\* hue-rotate normalising the angle to [0, 360)
convert_hue_rotate_normalised(amount) ==
    FeColorMatrix(HueRotate(Angle_to_degrees(amount) % (360 * ONE)))

convert_hue_rotate(amount) ==
    FeColorMatrix(HueRotate(Angle_to_degrees(amount)))

\* invert without the upper clamp
convert_invert_unclamped(amount0) ==
    LET amount == amount0 IN
    FeComponentTransfer(
        Table(<<amount, ONE - amount>>),
        Table(<<amount, ONE - amount>>),
        Table(<<amount, ONE - amount>>),
        Identity)

convert_invert(amount0) ==
    LET amount == Min(amount0, ONE) IN
    FeComponentTransfer(
        Table(<<amount, ONE - amount>>),
        Table(<<amount, ONE - amount>>),
        Table(<<amount, ONE - amount>>),
        Identity)

\* opacity without the upper clamp
convert_opacity_unclamped(amount0) ==
    LET amount == amount0 IN
    FeComponentTransfer(
        Identity,
        Identity,
        Identity,
        Table(<<0, amount>>))

convert_opacity(amount0) ==
    LET amount == Min(amount0, ONE) IN
    FeComponentTransfer(
        Identity,
        Identity,
        Identity,
        Table(<<0, amount>>))

convert_brightness(amount) ==
    FeComponentTransfer(
        Linear(amount, 0),
        Linear(amount, 0),
        Linear(amount, 0),
        Identity)

\* contrast with the intercept of brightness
convert_contrast_no_intercept(amount) ==
    FeComponentTransfer(
        Linear(amount, 0),
        Linear(amount, 0),
        Linear(amount, 0),
        Identity)

convert_contrast(amount) ==
    FeComponentTransfer(
        Linear(amount, -(Mul(ONE \div 2, amount)) + (ONE \div 2)),
        Linear(amount, -(Mul(ONE \div 2, amount)) + (ONE \div 2)),
        Linear(amount, -(Mul(ONE \div 2, amount)) + (ONE \div 2)),
        Identity)

\* ---------------------------------------------------- length conversions
\* the Length values of the document, and the attributes that name an axis
Lengths == 1 .. MaxLength
AIds == {"Dx", "Dy"}
Resolved == -1 .. MaxResolved

\* units::convert_length(length, node, aid, Units::UserSpaceOnUse, state):
\* an opaque query; node and state are the variable lengths
convert_length(length, aid) == lengths[<<length, aid>>]

\* Option<Color>
NoColor == [some |-> FALSE, value |-> <<>>]
SomeColor(c) == [some |-> TRUE, value |-> c]
Colors == {<<0, 0, 0>>, <<255, 0, 0>>}
OptColors == {NoColor} \cup { SomeColor(c) : c \in Colors }

\* Color::black()
Color_black == <<0, 0, 0>>

\* Opacity::default(): fully opaque
Opacity_default == ONE

\* node.find_attribute(AId::Color)
find_attribute_Color == ambient

convert_blur(std_dev0) ==
    LET std_dev == PositiveNumber_new(convert_length(std_dev0, "Dx")) IN
    IF std_dev.panic THEN Panicked
    ELSE [tag |-> "FeGaussianBlur", input |-> SourceGraphic,
          std_dev_x |-> std_dev.value,
          std_dev_y |-> std_dev.value]

\* drop-shadow preferring the ambient color to the explicit one
convert_drop_shadow_ambient_first(color0, dx, dy, std_dev0) ==
    LET std_dev == PositiveNumber_new(convert_length(std_dev0, "Dx"))
        color == IF find_attribute_Color.some THEN find_attribute_Color.value
                 ELSE IF color0.some THEN color0.value
                 ELSE Color_black
    IN
    IF std_dev.panic THEN Panicked
    ELSE [tag |-> "FeDropShadow", input |-> SourceGraphic,
          dx |-> convert_length(dx, "Dx"),
          dy |-> convert_length(dy, "Dy"),
          std_dev_x |-> std_dev.value,
          std_dev_y |-> std_dev.value,
          color |-> color,
          opacity |-> Opacity_default]

\* drop-shadow resolving dy against the x axis
convert_drop_shadow_dy_on_x(color0, dx, dy, std_dev0) ==
    LET std_dev == PositiveNumber_new(convert_length(std_dev0, "Dx"))
        color == IF color0.some THEN color0.value
                 ELSE IF find_attribute_Color.some THEN find_attribute_Color.value
                 ELSE Color_black
    IN
    IF std_dev.panic THEN Panicked
    ELSE [tag |-> "FeDropShadow", input |-> SourceGraphic,
          dx |-> convert_length(dx, "Dx"),
          dy |-> convert_length(dy, "Dx"),
          std_dev_x |-> std_dev.value,
          std_dev_y |-> std_dev.value,
          color |-> color,
          opacity |-> Opacity_default]

convert_drop_shadow(color0, dx, dy, std_dev0) ==
    LET std_dev == PositiveNumber_new(convert_length(std_dev0, "Dx"))
        color == IF color0.some THEN color0.value
                 ELSE IF find_attribute_Color.some THEN find_attribute_Color.value
                 ELSE Color_black
    IN
    IF std_dev.panic THEN Panicked
    ELSE [tag |-> "FeDropShadow", input |-> SourceGraphic,
          dx |-> convert_length(dx, "Dx"),
          dy |-> convert_length(dy, "Dy"),
          std_dev_x |-> std_dev.value,
          std_dev_y |-> std_dev.value,
          color |-> color,
          opacity |-> Opacity_default]

\* ------------------------------------------------------------ the machine
\* A behaviour is one conversion: the context is given, one convert_* is
\* called with some arguments, and it returns (or panics).
NoCall ==
    /\ fn = "none"
    /\ args = [amount |-> 0]
    /\ result = [tag |-> "None"]

\* The amount functions read neither the node nor the converter state.
InitAmount ==
    /\ NoCall
    /\ lengths = [p \in Lengths \X AIds |-> 0]
    /\ ambient = NoColor
    /\ debug_assertions \in BOOLEAN

\* blur and drop-shadow: any document, any converter state, either build.
InitLength ==
    /\ NoCall
    /\ lengths \in [Lengths \X AIds -> Resolved]
    /\ ambient \in OptColors
    /\ debug_assertions \in BOOLEAN

Context == <<lengths, ambient, debug_assertions>>

Grayscale ==
    \E amount \in Amounts :
        /\ NoCall
        /\ fn' = "grayscale"
        /\ args' = [amount |-> amount]
        /\ result' = convert_grayscale(amount)
        /\ UNCHANGED Context

Sepia ==
    \E amount \in Amounts :
        /\ NoCall
        /\ fn' = "sepia"
        /\ args' = [amount |-> amount]
        /\ result' = convert_sepia(amount)
        /\ UNCHANGED Context

SaturateCall ==
    \E amount \in Amounts :
        /\ NoCall
        /\ fn' = "saturate"
        /\ args' = [amount |-> amount]
        /\ result' = convert_saturate(amount)
        /\ UNCHANGED Context

HueRotateCall ==
    \E angle \in Angles :
        /\ NoCall
        /\ fn' = "hue_rotate"
        /\ args' = [angle |-> angle]
        /\ result' = convert_hue_rotate(angle)
        /\ UNCHANGED Context

Invert ==
    \E amount \in Amounts :
        /\ NoCall
        /\ fn' = "invert"
        /\ args' = [amount |-> amount]
        /\ result' = convert_invert(amount)
        /\ UNCHANGED Context

OpacityCall ==
    \E amount \in Amounts :
        /\ NoCall
        /\ fn' = "opacity"
        /\ args' = [amount |-> amount]
        /\ result' = convert_opacity(amount)
        /\ UNCHANGED Context

Brightness ==
    \E amount \in Amounts :
        /\ NoCall
        /\ fn' = "brightness"
        /\ args' = [amount |-> amount]
        /\ result' = convert_brightness(amount)
        /\ UNCHANGED Context

Contrast ==
    \E amount \in Amounts :
        /\ NoCall
        /\ fn' = "contrast"
        /\ args' = [amount |-> amount]
        /\ result' = convert_contrast(amount)
        /\ UNCHANGED Context

Blur ==
    \E std_dev \in Lengths :
        /\ NoCall
        /\ fn' = "blur"
        /\ args' = [std_dev |-> std_dev]
        /\ result' = convert_blur(std_dev)
        /\ UNCHANGED Context

DropShadow ==
    \E color \in OptColors, dx \in Lengths, dy \in Lengths, std_dev \in Lengths :
        /\ NoCall
        /\ fn' = "drop_shadow"
        /\ args' = [color |-> color, dx |-> dx, dy |-> dy, std_dev |-> std_dev]
        /\ result' = convert_drop_shadow(color, dx, dy, std_dev)
        /\ UNCHANGED Context

NextAmount ==
    \/ Grayscale
    \/ Sepia
    \/ SaturateCall
    \/ HueRotateCall
    \/ Invert
    \/ OpacityCall
    \/ Brightness
    \/ Contrast

NextLength ==
    \/ Blur
    \/ DropShadow

SpecAmount == InitAmount /\ [][NextAmount]_vars

SpecLength == InitLength /\ [][NextLength]_vars

\* ------------------------------------------------------------- properties
\* C1: whatever the context resolves stdDeviation to, negative values
\* included, blur and drop-shadow return a primitive whose std_dev_x and
\* std_dev_y are both the resolved length clamped to >= 0.
C1_StdDevClamped ==
    fn \in {"blur", "drop_shadow"} =>
        /\ result.tag \in {"FeGaussianBlur", "FeDropShadow"}
        /\ result.std_dev_x = Max(convert_length(args.std_dev, "Dx"), 0)
        /\ result.std_dev_y = Max(convert_length(args.std_dev, "Dx"), 0)

\* C2: for every amount >= 1, grayscale(amount) is grayscale(1.0) and
\* sepia(amount) is sepia(1.0), coefficient by coefficient.
C2_UpperClampHolds ==
    /\ (fn = "grayscale" /\ args.amount >= ONE) =>
           /\ Len(result.kind.values) = 20
           /\ \A i \in 1 .. 20 :
                  result.kind.values[i] = convert_grayscale(ONE).kind.values[i]
           /\ result = convert_grayscale(ONE)
    /\ (fn = "sepia" /\ args.amount >= ONE) =>
           /\ Len(result.kind.values) = 20
           /\ \A i \in 1 .. 20 :
                  result.kind.values[i] = convert_sepia(ONE).kind.values[i]
           /\ result = convert_sepia(ONE)

C2_Witness ==
    /\ fn = "grayscale"
    /\ args.amount > ONE
    /\ result.kind.values =
           << 2126, 7152, 722, 0, 0,
              2126, 7152, 722, 0, 0,
              2126, 7152, 722, 0, 0,
              0, 0, 0, ONE, 0 >>

\* C3: the color of a returned drop-shadow is the explicit color when one is
\* given, else the ambient color of the node, else black; its opacity is 1.
C3_ColorPrecedence ==
    (fn = "drop_shadow" /\ result.tag = "FeDropShadow") =>
        /\ args.color.some => result.color = args.color.value
        /\ (~args.color.some /\ ambient.some) => result.color = ambient.value
        /\ (~args.color.some /\ ~ambient.some) => result.color = <<0, 0, 0>>
        /\ result.opacity = ONE

C3_Witness ==
    /\ fn = "drop_shadow"
    /\ result.tag = "FeDropShadow"
    /\ args.color.some
    /\ ambient.some
    /\ args.color.value # ambient.value
    /\ result.color = args.color.value

\* C4: saturate clamps from below only: a negative amount gives saturate(0),
\* an amount >= 0 is carried as it is, and the kind is always Saturate.
C4_SaturateLowerClampOnly ==
    fn = "saturate" =>
        /\ result.tag = "FeColorMatrix"
        /\ result.kind.tag = "Saturate"
        /\ args.amount < 0 =>
               (result = convert_saturate(0) /\ result.kind.value = 0)
        /\ args.amount >= 0 => result.kind.value = args.amount

C4_Witness ==
    /\ fn = "saturate"
    /\ args.amount > ONE
    /\ result.kind.value = args.amount

\* C5: invert gives the table [a, 1 - a], a = min(amount, 1), on R, G and B
\* and Identity on alpha; invert(0) is [0, 1], invert(1) is [1, 0], and an
\* amount above 1 gives invert(1).
C5_InvertTable ==
    fn = "invert" =>
        LET a == IF args.amount > ONE THEN ONE ELSE args.amount IN
        /\ result.tag = "FeComponentTransfer"
        /\ result.func_r = [tag |-> "Table", values |-> <<a, ONE - a>>]
        /\ result.func_g = result.func_r
        /\ result.func_b = result.func_r
        /\ result.func_a = [tag |-> "Identity"]
        /\ args.amount = 0 => result.func_r.values = <<0, ONE>>
        /\ args.amount = ONE => result.func_r.values = <<ONE, 0>>
        /\ args.amount > ONE => result = convert_invert(ONE)

C5_Witness ==
    /\ fn = "invert"
    /\ args.amount > ONE
    /\ result.func_r.values = <<ONE, 0>>

\* C6: opacity gives Identity on R, G and B and the table [0, min(amount, 1)]
\* on alpha; opacity(1) is [0, 1], opacity(0) is [0, 0], and an amount above
\* 1 gives opacity(1).
C6_OpacityTable ==
    fn = "opacity" =>
        LET a == IF args.amount > ONE THEN ONE ELSE args.amount IN
        /\ result.tag = "FeComponentTransfer"
        /\ result.func_r = [tag |-> "Identity"]
        /\ result.func_g = [tag |-> "Identity"]
        /\ result.func_b = [tag |-> "Identity"]
        /\ result.func_a = [tag |-> "Table", values |-> <<0, a>>]
        /\ args.amount = ONE => result.func_a.values = <<0, ONE>>
        /\ args.amount = 0 => result.func_a.values = <<0, 0>>
        /\ args.amount > ONE => result = convert_opacity(ONE)

C6_Witness ==
    /\ fn = "opacity"
    /\ args.amount > ONE
    /\ result.func_a.values = <<0, ONE>>

\* C7: contrast clamps nothing: R, G and B are Linear with slope = amount and
\* intercept = 0.5 - 0.5 * amount, alpha is Identity; contrast(1) is slope 1,
\* intercept 0, and the line passes through (0.5, 0.5).
C7_ContrastLinear ==
    fn = "contrast" =>
        /\ result.tag = "FeComponentTransfer"
        /\ result.func_r.tag = "Linear"
        /\ result.func_r.slope = args.amount
        /\ 2 * result.func_r.intercept = ONE - args.amount
        /\ result.func_g = result.func_r
        /\ result.func_b = result.func_r
        /\ result.func_a = [tag |-> "Identity"]
        /\ args.amount = ONE =>
               (result.func_r.slope = ONE /\ result.func_r.intercept = 0)
        /\ Mul(result.func_r.slope, ONE \div 2) + result.func_r.intercept
               = ONE \div 2

C7_Witness ==
    /\ fn = "contrast"
    /\ args.amount > ONE
    /\ result.func_r.slope = args.amount
    /\ result.func_r.intercept < 0

\* the luminance weights, and a row of the 4x5 identity
Luminance == <<2126, 7152, 722, 0, 0>>
IdentityRow(r) == [c \in 1 .. 5 |-> IF c = r THEN ONE ELSE 0]

\* C8: for every amount <= 1, negative amounts included, the R, G and B rows
\* of grayscale(amount) are (1 - amount) * Identity + amount * Luminance and
\* the alpha row is [0, 0, 0, 1, 0]; grayscale(0) is the identity matrix and
\* grayscale(1) has three luminance rows.
C8_GrayscaleInterpolates ==
    (fn = "grayscale" /\ args.amount <= ONE) =>
        LET m == result.kind.values IN
        /\ result.kind.tag = "Matrix"
        /\ Len(m) = 20
        /\ \A r \in 1 .. 3 : \A c \in 1 .. 5 :
               m[5 * (r - 1) + c] =
                   Mul(ONE - args.amount, IdentityRow(r)[c])
                       + Mul(args.amount, Luminance[c])
        /\ \A c \in 1 .. 5 : m[15 + c] = IdentityRow(4)[c]
        /\ args.amount = 0 =>
               \A r \in 1 .. 4 : \A c \in 1 .. 5 :
                   m[5 * (r - 1) + c] = IdentityRow(r)[c]
        /\ args.amount = ONE =>
               \A r \in 1 .. 3 : \A c \in 1 .. 5 :
                   m[5 * (r - 1) + c] = Luminance[c]

C8_Witness ==
    /\ fn = "grayscale"
    /\ args.amount < 0
    /\ result.kind.values[1] > ONE
    /\ result.kind.values[2] < 0

\* C9: a returned drop-shadow has dx = the dx argument resolved against the x
\* axis, dy = the dy argument resolved against the y axis, and the standard
\* deviation = the stdDeviation argument resolved (when that is >= 0); no
\* field follows another argument's length or axis.
C9_LengthsResolvedSeparately ==
    (fn = "drop_shadow" /\ result.tag = "FeDropShadow") =>
        /\ result.dx = lengths[<<args.dx, "Dx">>]
        /\ result.dy = lengths[<<args.dy, "Dy">>]
        /\ lengths[<<args.std_dev, "Dx">>] >= 0 =>
               /\ result.std_dev_x = lengths[<<args.std_dev, "Dx">>]
               /\ result.std_dev_y = lengths[<<args.std_dev, "Dx">>]

C9_Witness ==
    /\ fn = "drop_shadow"
    /\ result.tag = "FeDropShadow"
    /\ args.dx # args.dy
    /\ lengths[<<args.dy, "Dy">>] # lengths[<<args.dy, "Dx">>]
    /\ lengths[<<args.dx, "Dx">>] # lengths[<<args.dx, "Dy">>]
    /\ lengths[<<args.dx, "Dx">>] # lengths[<<args.dy, "Dy">>]
    /\ result.dx = lengths[<<args.dx, "Dx">>]
    /\ result.dy = lengths[<<args.dy, "Dy">>]
    /\ result.std_dev_x > 0

\* C10: hue-rotate neither clamps nor normalises: HueRotate carries the angle
\* in degrees, so 360deg is 360, and negative angles and angles above 360
\* are carried as given.
C10_HueRotateUnchanged ==
    fn = "hue_rotate" =>
        /\ result.tag = "FeColorMatrix"
        /\ result.kind.tag = "HueRotate"
        /\ result.kind.value = Angle_to_degrees(args.angle)
        /\ args.angle.unit = "deg" => result.kind.value = args.angle.number
        /\ args.angle.unit = "turn" => result.kind.value = 360 * args.angle.number
        /\ (args.angle.number < 0) = (result.kind.value < 0)
        /\ (args.angle.number > 0) = (result.kind.value > 0)

C10_Witness ==
    /\ fn = "hue_rotate"
    /\ args.angle = [number |-> 360 * ONE, unit |-> "deg"]
    /\ result.kind.value = 360 * ONE
====
